---------------------------- MODULE Spec2Model ----------------------------
(***************************************************************************)
(* freespeak: the text pipeline of src/src/langtool.py.                    *)
(*                                                                         *)
(* langtool_process(text) rewrites spoken punctuation words into marks,    *)
(* cleans the marks up, and then sends the text to a LanguageTool server   *)
(* (langtool) until a round changes nothing or the tries are spent.        *)
(*                                                                         *)
(* A text is a sequence of one-character strings.  Indices of the source   *)
(* are 0-based; sequences here are 1-based, so the source's text[a:b] is   *)
(* Slice(text, a, b) below and the fields offset, length and last_index    *)
(* keep the source's 0-based values.                                       *)
(***************************************************************************)
EXTENDS Integers, Sequences, FiniteSets, TLC

(***************************************************************************)
(* Characters, as Python's re module classifies them for a str pattern.    *)
(***************************************************************************)
LowerAZ == <<"a", "b", "c", "d", "e", "f", "g", "h", "i", "j", "k", "l", "m",
             "n", "o", "p", "q", "r", "s", "t", "u", "v", "w", "x", "y", "z">>

UpperAZ == <<"A", "B", "C", "D", "E", "F", "G", "H", "I", "J", "K", "L", "M",
             "N", "O", "P", "Q", "R", "S", "T", "U", "V", "W", "X", "Y", "Z">>

LowerSet == {LowerAZ[i] : i \in DOMAIN LowerAZ}

UpperSet == {UpperAZ[i] : i \in DOMAIN UpperAZ}

DigitSet == {"0", "1", "2", "3", "4", "5", "6", "7", "8", "9"}

\* Letters outside A-Z and a-z, of which a str pattern's \w, \b and (?i)
\* know and [A-Z] does not: one capital and its small letter stand for them.
OtherUpper == <<"É">>

OtherLower == <<"é">>

OtherUpperSet == {OtherUpper[i] : i \in DOMAIN OtherUpper}

OtherLowerSet == {OtherLower[i] : i \in DOMAIN OtherLower}

\* \s
IsSpace(c) == c \in {" ", "\t", "\n", "\r"}

\* \w
IsWordChar(c) ==
  c \in LowerSet \cup UpperSet \cup DigitSet \cup {"_"}
         \cup OtherUpperSet \cup OtherLowerSet

\* [.,?!]
IsMark(c) == c \in {".", ",", "?", "!"}

\* str.lower() of one character; also how (?i) compares a character with a
\* lower-case pattern letter.
Lower(c) == IF c \in UpperSet
            THEN LowerAZ[CHOOSE i \in DOMAIN UpperAZ : UpperAZ[i] = c]
            ELSE IF c \in OtherUpperSet
            THEN OtherLower[CHOOSE i \in DOMAIN OtherUpper : OtherUpper[i] = c]
            ELSE c

(***************************************************************************)
(* Python slicing text[a:b] with 0 <= a, 0 <= b: both ends are clamped to  *)
(* the length, and an empty or inverted range is the empty string.         *)
(***************************************************************************)
Min(a, b) == IF a <= b THEN a ELSE b

Slice(t, a, b) == SubSeq(t, Min(a, Len(t)) + 1, Min(b, Len(t)))

\* text[a:]
SliceFrom(t, a) == Slice(t, a, Len(t))

(***************************************************************************)
(* PUNCTUATION, in the dict's insertion order.                             *)
(***************************************************************************)
PUNCTUATION ==
  << [word |-> <<"c", "o", "m", "m", "a">>, sym |-> ","],
     [word |-> <<"p", "e", "r", "i", "o", "d">>, sym |-> "."],
     [word |-> <<"e", "x", "c", "l", "a", "m", "a", "t", "i", "o", "n", " ",
                 "m", "a", "r", "k">>, sym |-> "!"],
     [word |-> <<"q", "u", "e", "s", "t", "i", "o", "n", " ", "m", "a", "r",
                 "k">>, sym |-> "?"],
     [word |-> <<"o", "p", "e", "n", " ", "q", "u", "o", "t", "e">>,
      sym |-> "\""],
     [word |-> <<"c", "l", "o", "s", "e", " ", "q", "u", "o", "t", "e">>,
      sym |-> "\""] >>

(***************************************************************************)
(* The regular expressions of step 1, matched at 1-based position i.       *)
(* Each Match... operator is the 1-based position right after the match,   *)
(* or 0 when the pattern does not match at i.                              *)
(***************************************************************************)

\* The first position j >= i that holds no whitespace (Len(t) + 1 at the end):
\* where a greedy \s+ or \s* started at i stops.
RECURSIVE SpaceRunEnd(_, _)
SpaceRunEnd(t, i) ==
  IF i <= Len(t) /\ IsSpace(t[i]) THEN SpaceRunEnd(t, i + 1) ELSE i

\* (?i)word at position j: every character equals the word's, case ignored.
WordAt(t, j, word) ==
  /\ j + Len(word) - 1 <= Len(t)
  /\ \A k \in 1..Len(word) : Lower(t[j + k - 1]) = word[k]

\* BoundaryAfter without the word boundary after the phrase.
BoundaryAfterAnywhere(t, e) == TRUE

\* \b at position e between a word character t[e-1] and what follows.
BoundaryAfter(t, e) == e > Len(t) \/ ~IsWordChar(t[e])

\* MatchWord without the optional period: \b{word}\b.
MatchWordKeepsPeriod(t, j, word) ==
  IF WordAt(t, j, word) /\ BoundaryAfter(t, j + Len(word))
  THEN j + Len(word)
  ELSE 0

\* \b{word}\b(\.?) at position j.
MatchWord(t, j, word) ==
  LET e == j + Len(word)
  IN  IF WordAt(t, j, word) /\ BoundaryAfter(t, e)
      THEN (IF e <= Len(t) /\ t[e] = "." THEN e + 1 ELSE e)
      ELSE 0

\* pattern_space = (?i)(\s+)\b{word}\b(\.?) at position i.  \s+ is greedy and
\* the word starts with a letter, so only the whole run of whitespace can be
\* followed by the word.
MatchSpace(t, i, word) ==
  IF i <= Len(t) /\ IsSpace(t[i])
  THEN MatchWord(t, SpaceRunEnd(t, i), word)
  ELSE 0

\* The least element of a non-empty set of positions: where re.sub, scanning
\* from the left, finds its next match.
Leftmost(S) == CHOOSE s \in S : \A x \in S : s <= x

\* re.sub(pattern_space, replacement_char, t): leftmost matches, left to
\* right, none overlapping; the text from position i on.
RECURSIVE SubSpaceFrom(_, _, _, _)
SubSpaceFrom(t, i, word, sym) ==
  LET starts == {s \in i..Len(t) : MatchSpace(t, s, word) > 0}
  IN  IF starts = {} THEN SubSeq(t, i, Len(t))
      ELSE LET s == Leftmost(starts)
           IN  SubSeq(t, i, s - 1) \o <<sym>>
                 \o SubSpaceFrom(t, MatchSpace(t, s, word), word, sym)

SubSpace(t, word, sym) == SubSpaceFrom(t, 1, word, sym)

\* re.sub(pattern_start, replacement_char, t), with
\* pattern_start = (?i)^\b{word}\b(\.?): one match at most, at the start.
SubStart(t, word, sym) ==
  LET e == MatchWord(t, 1, word)
  IN  IF e > 0 THEN <<sym>> \o SubSeq(t, e, Len(t)) ELSE t

\* One pass of the for loop over PUNCTUATION.items(): rule k.
PunctuationRule(t, k) ==
  SubStart(SubSpace(t, PUNCTUATION[k].word, PUNCTUATION[k].sym),
           PUNCTUATION[k].word, PUNCTUATION[k].sym)

(***************************************************************************)
(* Step 2a and 2b.                                                         *)
(***************************************************************************)

\* \s+([.,?!]) at position i: the position of the mark, or 0.
MatchSpaceMark(t, i) ==
  LET j == SpaceRunEnd(t, i)
  IN  IF i <= Len(t) /\ IsSpace(t[i]) /\ j <= Len(t) /\ IsMark(t[j])
      THEN j ELSE 0

\* re.sub(r'\s+([.,?!])', r'\1', t)
RECURSIVE SpaceBeforeMarkFrom(_, _)
SpaceBeforeMarkFrom(t, i) ==
  LET starts == {s \in i..Len(t) : MatchSpaceMark(t, s) > 0}
  IN  IF starts = {} THEN SubSeq(t, i, Len(t))
      ELSE LET s == Leftmost(starts)
               j == MatchSpaceMark(t, s)
           IN  SubSeq(t, i, s - 1) \o <<t[j]>> \o SpaceBeforeMarkFrom(t, j + 1)

SpaceBeforeMark(t) == SpaceBeforeMarkFrom(t, 1)

\* The first position j >= i whose character differs from c.
RECURSIVE SameRunEnd(_, _, _)
SameRunEnd(t, i, c) ==
  IF i <= Len(t) /\ t[i] = c THEN SameRunEnd(t, i + 1, c) ELSE i

\* ([.,?!])\1 at position i, a pair in place of the whole run.
MatchDuplicatePair(t, i) ==
  IF i < Len(t) /\ IsMark(t[i]) /\ t[i + 1] = t[i] THEN i + 2 ELSE 0

\* ([.,?!])\1+ at position i: the position right after the run, or 0.
MatchDuplicate(t, i) ==
  IF i < Len(t) /\ IsMark(t[i]) /\ t[i + 1] = t[i]
  THEN SameRunEnd(t, i + 1, t[i]) ELSE 0

\* re.sub(r'([.,?!])\1+', r'\1', t)
RECURSIVE DuplicateMarksFrom(_, _)
DuplicateMarksFrom(t, i) ==
  LET starts == {s \in i..Len(t) : MatchDuplicate(t, s) > 0}
  IN  IF starts = {} THEN SubSeq(t, i, Len(t))
      ELSE LET s == Leftmost(starts)
           IN  SubSeq(t, i, s) \o DuplicateMarksFrom(t, MatchDuplicate(t, s))

DuplicateMarks(t) == DuplicateMarksFrom(t, 1)

\* (,\s+)(\b[A-Z]) at position i: the position of the capital letter, or 0.
MatchCommaCapital(t, i) ==
  LET j == SpaceRunEnd(t, i + 1)
  IN  IF i <= Len(t) /\ t[i] = "," /\ j > i + 1 /\ j <= Len(t)
         /\ t[j] \in UpperSet
      THEN j ELSE 0

\* re.sub(r'(,\s+)(\b[A-Z])', lambda m: m.group(1) + m.group(2).lower(), t)
RECURSIVE CommaLowerFrom(_, _)
CommaLowerFrom(t, i) ==
  LET starts == {s \in i..Len(t) : MatchCommaCapital(t, s) > 0}
  IN  IF starts = {} THEN SubSeq(t, i, Len(t))
      ELSE LET j == MatchCommaCapital(t, Leftmost(starts))
           IN  SubSeq(t, i, j - 1) \o <<Lower(t[j])>> \o CommaLowerFrom(t, j + 1)

CommaLower(t) == CommaLowerFrom(t, 1)

\* Cleanup with step 2b's collapsing of repeated marks before step 2a.
CleanupMarksFirst(t) == CommaLower(SpaceBeforeMark(DuplicateMarks(t)))

\* Steps 2a and 2b together.
Cleanup(t) == CommaLower(DuplicateMarks(SpaceBeforeMark(t)))

\* Steps 1 and 2 of langtool_process: the text sent to the first round.
RECURSIVE PunctuationFrom(_, _)
PunctuationFrom(t, k) ==
  IF k > Len(PUNCTUATION) THEN t
  ELSE PunctuationFrom(PunctuationRule(t, k), k + 1)

Normalize(t) == Cleanup(PunctuationFrom(t, 1))


(***************************************************************************)
(* The LanguageTool server, as langtool sees it.                           *)
(*                                                                         *)
(* A reply is [kind, matches].  kind says how far the call gets:           *)
(*   "request_failed"  requests.post raised a RequestException (no         *)
(*                     connection, timeout)                                *)
(*   "bad_status"      raise_for_status raised (4xx, 5xx)                  *)
(*   "not_json"        r.json() raised JSONDecodeError                     *)
(*   "json_scalar"     the body is JSON null, a number or a boolean        *)
(*   "no_matches"      a JSON object without the key "matches"             *)
(*   "matches"         a JSON object whose "matches" is the list given     *)
(* A match is [offset, length, rule, replacements, absent]: rule is        *)
(* m["rule"]["id"], replacements the list of the "value" strings, and      *)
(* absent names the one key the element lacks ("none" when it has them     *)
(* all; "value" is the first replacement's).                               *)
(***************************************************************************)
SkippedRules == {"TOO_LONG_SENTENCE"}

FailureKinds == {"request_failed", "bad_status", "not_json", "no_matches"}

Match(o, n, rule, replacements, absent) ==
  [offset |-> o, length |-> n, rule |-> rule, replacements |-> replacements,
   absent |-> absent]

Reply(kind, ms) == [kind |-> kind, matches |-> ms]

\* InsertByOffset putting m after the elements with its offset.
RECURSIVE InsertAfterEqualOffsets(_, _)
InsertAfterEqualOffsets(m, ms) ==
  IF ms = <<>> \/ m.offset < Head(ms).offset THEN <<m>> \o ms
  ELSE <<Head(ms)>> \o InsertAfterEqualOffsets(m, Tail(ms))

\* sorted(data["matches"], key=lambda x: x["offset"]): stable.
RECURSIVE InsertByOffset(_, _)
InsertByOffset(m, ms) ==
  IF ms = <<>> \/ m.offset <= Head(ms).offset THEN <<m>> \o ms
  ELSE <<Head(ms)>> \o InsertByOffset(m, Tail(ms))

RECURSIVE SortByOffset(_)
SortByOffset(ms) ==
  IF ms = <<>> THEN <<>>
  ELSE InsertByOffset(Head(ms), SortByOffset(Tail(ms)))

\* "".join(parts)
RECURSIVE Join(_)
Join(parts) == IF parts = <<>> THEN <<>> ELSE Head(parts) \o Join(Tail(parts))

(***************************************************************************)
(* One iteration of "for m in matches" on the loop's state                 *)
(* st = [new_text_parts, last_index, raised].  A key the element lacks     *)
(* raises KeyError where the source first reads it; raised = TRUE then,    *)
(* and the exception leaves langtool.                                      *)
(***************************************************************************)
\* EmittedFor taking the last candidate, not the first.
EmittedForLastCandidate(text, m) ==
  LET o == m.offset
      n == m.length
  IN  IF m.rule \in SkippedRules THEN Slice(text, o, o + n)
      ELSE IF Len(m.replacements) >= 1 THEN m.replacements[Len(m.replacements)]
      ELSE IF n > 0 THEN <<"[">> \o Slice(text, o, o + n) \o <<"]">>
      ELSE Slice(text, o, o + n)

\* EmittedFor without the test for the skipped rules.
EmittedForNoSkipList(text, m) ==
  LET o == m.offset
      n == m.length
  IN  IF Len(m.replacements) >= 1 THEN m.replacements[1]
      ELSE IF n > 0 THEN <<"[">> \o Slice(text, o, o + n) \o <<"]">>
      ELSE Slice(text, o, o + n)

\* EmittedFor without the square brackets.
EmittedForNoBrackets(text, m) ==
  LET o == m.offset
      n == m.length
  IN  IF m.rule \in SkippedRules THEN Slice(text, o, o + n)
      ELSE IF Len(m.replacements) >= 1 THEN m.replacements[1]
      ELSE Slice(text, o, o + n)

\* EmittedFor without the test "n > 0": brackets also around an empty span.
EmittedForBracketsAlways(text, m) ==
  LET o == m.offset
      n == m.length
  IN  IF m.rule \in SkippedRules THEN Slice(text, o, o + n)
      ELSE IF Len(m.replacements) >= 1 THEN m.replacements[1]
      ELSE <<"[">> \o Slice(text, o, o + n) \o <<"]">>

EmittedFor(text, m) ==
  LET o == m.offset
      n == m.length
  IN  IF m.rule \in SkippedRules THEN Slice(text, o, o + n)
      ELSE IF Len(m.replacements) >= 1 THEN m.replacements[1]
      ELSE IF n > 0 THEN <<"[">> \o Slice(text, o, o + n) \o <<"]">>
      ELSE Slice(text, o, o + n)

\* Whether the iteration reads a key that m lacks.
RaisesKeyError(m, last_index) ==
  \/ m.absent = "length"
  \/ /\ m.offset >= last_index
     /\ \/ m.absent = "rule"
        \/ /\ m.rule \notin SkippedRules
           /\ \/ m.absent = "replacements"
              \/ m.absent = "value" /\ Len(m.replacements) >= 1

\* ForBody without "if o < last_index: continue".
ForBodyNoOverlapCheck(text, m, st) ==
  IF RaisesKeyError(m, 0)
  THEN [st EXCEPT !.raised = TRUE]
  ELSE [st EXCEPT
          !.new_text_parts =
             @ \o <<Slice(text, st.last_index, m.offset), EmittedFor(text, m)>>,
          !.last_index = m.offset + m.length]

\* ForBody with "last_index = o" for "last_index = o + n".
ForBodyLastIndexAtOffset(text, m, st) ==
  IF RaisesKeyError(m, st.last_index)
  THEN [st EXCEPT !.raised = TRUE]
  ELSE IF m.offset < st.last_index
  THEN st
  ELSE [st EXCEPT
          !.new_text_parts =
             @ \o <<Slice(text, st.last_index, m.offset), EmittedFor(text, m)>>,
          !.last_index = m.offset]

\* ForBody passing over a match of a skipped rule: nothing is appended
\* for it and last_index stays.
ForBodySkippedPassedOver(text, m, st) ==
  IF RaisesKeyError(m, st.last_index)
  THEN [st EXCEPT !.raised = TRUE]
  ELSE IF m.offset < st.last_index \/ m.rule \in SkippedRules
  THEN st
  ELSE [st EXCEPT
          !.new_text_parts =
             @ \o <<Slice(text, st.last_index, m.offset), EmittedFor(text, m)>>,
          !.last_index = m.offset + m.length]

\* ForBody taking the span of m from the text as rewritten so far, not
\* from the text langtool was given.
ForBodyOffsetsInOutput(text, m, st) ==
  IF RaisesKeyError(m, st.last_index)
  THEN [st EXCEPT !.raised = TRUE]
  ELSE IF m.offset < st.last_index
  THEN st
  ELSE LET rewritten == Join(st.new_text_parts) \o SliceFrom(text, st.last_index)
       IN  [st EXCEPT
              !.new_text_parts =
                 @ \o <<Slice(text, st.last_index, m.offset), EmittedFor(rewritten, m)>>,
              !.last_index = m.offset + m.length]

ForBody(text, m, st) ==
  IF RaisesKeyError(m, st.last_index)
  THEN [st EXCEPT !.raised = TRUE]
  ELSE IF m.offset < st.last_index
  THEN st
  ELSE [st EXCEPT
          !.new_text_parts =
             @ \o <<Slice(text, st.last_index, m.offset), EmittedFor(text, m)>>,
          !.last_index = m.offset + m.length]

RECURSIVE ForMatches(_, _, _)
ForMatches(text, ms, st) ==
  IF ms = <<>> \/ st.raised THEN st
  ELSE ForMatches(text, Tail(ms), ForBody(text, Head(ms), st))

LoopStart == [new_text_parts |-> <<>>, last_index |-> 0, raised |-> FALSE]

\* Joined without the text after the last match.
JoinedWithoutTail(text, st) == Join(st.new_text_parts)

\* The return statement after the loop.
Joined(text, st) ==
  Join(st.new_text_parts \o <<SliceFrom(text, st.last_index)>>)

\* Whether reading the reply raises before the for loop starts: the
\* membership test on a JSON scalar (TypeError), or sorted's key on an
\* element without "offset" (KeyError).
RaisesBeforeLoop(r) ==
  \/ r.kind = "json_scalar"
  \/ /\ r.kind = "matches"
     /\ \E i \in DOMAIN r.matches : r.matches[i].absent = "offset"

\* langtool(text, language) against a server that answers r:
\* [raised, text], text being the value returned when nothing is raised.
langtool(text, r) ==
  IF r.kind \in FailureKinds THEN [raised |-> FALSE, text |-> text]
  ELSE IF RaisesBeforeLoop(r) THEN [raised |-> TRUE, text |-> text]
  ELSE LET st == ForMatches(text, SortByOffset(r.matches), LoopStart)
       IN  IF st.raised THEN [raised |-> TRUE, text |-> text]
           ELSE [raised |-> FALSE, text |-> Joined(text, st)]


(***************************************************************************)
(* langtool_process run alone against a server that answers with replies,  *)
(* one reply per call, as far as they reach:                               *)
(*   [outcome, text, tries], outcome being "done" (text is the value       *)
(*   returned), "raised", or "loop" (every reply is used up and the next   *)
(*   call would send text with tries left).                                *)
(***************************************************************************)
RECURSIVE WhileTrue(_, _, _)
WhileTrue(processed_text, tries, replies) ==
  IF replies = <<>>
  THEN [outcome |-> "loop", text |-> processed_text, tries |-> tries]
  ELSE LET res == langtool(processed_text, Head(replies))
       IN  IF res.raised
           THEN [outcome |-> "raised", text |-> processed_text, tries |-> tries]
           ELSE IF res.text = processed_text \/ tries = 0
           THEN [outcome |-> "done", text |-> res.text, tries |-> tries]
           ELSE WhileTrue(res.text, tries - 1, Tail(replies))

langtool_process(text, replies) == WhileTrue(Normalize(text), 3, replies)

(***************************************************************************)
(* State.  Procs are the invocations of langtool_process; each has its     *)
(* own frame, as Python locals do.                                         *)
(*   pc[p]   where invocation p stands:                                    *)
(*             "idle"         not called                                   *)
(*             "punctuation"  in the for loop of step 1                    *)
(*             "cleanup"      before step 2a                               *)
(*             "loop"         at the top of "while True"                   *)
(*             "for"          inside langtool, in "for m in matches"       *)
(*             "returned"     langtool has returned new_text               *)
(*             "done"         langtool_process has returned final_text     *)
(*             "raised"       an exception has left langtool_process       *)
(*   lp[p]   the locals of langtool_process                                *)
(*   lt[p]   the locals of langtool                                        *)
(*   svc[p]  what p has exchanged with the server: the number of calls,    *)
(*           the text and the reply of the last one, whether every reply   *)
(*           so far was an empty list of matches, and the replies in the   *)
(*           order p received them                                         *)
(*   host    the application around langtool_process: where                *)
(*           handle_audio_transcription stands with the audio payload it   *)
(*           was given, its locals, and the calls it has made for that     *)
(*           payload to the transcriber, to langtool_process and to        *)
(*           ydotool, in order                                             *)
(*   window  the MainWindow with its overlay and the DictationService      *)
(*           published for it: the fields of the window, the callbacks     *)
(*           QTimer.singleShot has queued, the toggle scripts handed to    *)
(*           the page and not yet run, and the mic statuses the window     *)
(*           has been told, in order                                       *)
(***************************************************************************)
VARIABLES pc, lp, lt, svc, host, window

vars == <<pc, lp, lt, svc, host, window>>

Procs == {1, 2}

NoReply == Reply("none", <<>>)

\* The locals before their first assignment; the source reads none of them
\* before it assigns them.
IdleFrame ==
  [text |-> <<>>, processed_text |-> <<>>, rule_i |-> 1, tries |-> 0,
   new_text |-> <<>>, final_text |-> <<>>]

IdleLangtool ==
  [text |-> <<>>, matches |-> <<>>, match_i |-> 1, new_text_parts |-> <<>>,
   last_index |-> 0]

IdleService ==
  [calls |-> 0, sent |-> <<>>, reply |-> NoReply, all_empty |-> TRUE,
   replies |-> <<>>]

\* The host before any audio payload has arrived.
IdleHost ==
  [pc |-> "idle", audio |-> "none", raw_transcription |-> <<>>,
   processed_transcription |-> <<>>, calls |-> <<>>]

\* The window as MainWindow.__init__ leaves it, the event loop not yet
\* started: a widget is hidden until it is shown, and main() starts with
\* the main window hidden too.
IdleWindow ==
  [_is_recording |-> FALSE, recording_overlay |-> "hidden", visible |-> FALSE,
   timers |-> 0, scripts |-> 0, statuses |-> <<>>, quit |-> FALSE]

\* langtool_process(text) entered: line 54.
Entered(text) == [IdleFrame EXCEPT !.text = text, !.processed_text = text]

\* BeforeLoop with "tries = 4".
BeforeLoopFourTries(text, t) ==
  [IdleFrame EXCEPT !.text = text, !.processed_text = t,
                    !.rule_i = Len(PUNCTUATION) + 1, !.tries = 4,
                    !.final_text = t]

\* Line 94-95, reached with processed_text = t.
BeforeLoop(text, t) ==
  [IdleFrame EXCEPT !.text = text, !.processed_text = t,
                    !.rule_i = Len(PUNCTUATION) + 1, !.tries = 3,
                    !.final_text = t]

(***************************************************************************)
(* langtool_process, step 1: one pass of the for loop, rule lp[p].rule_i.  *)
(***************************************************************************)
PunctuationStep(p) ==
  /\ pc[p] = "punctuation"
  /\ lp' = [lp EXCEPT
              ![p].processed_text = PunctuationRule(@, lp[p].rule_i),
              ![p].rule_i = @ + 1]
  /\ pc' = [pc EXCEPT
              ![p] = IF lp[p].rule_i = Len(PUNCTUATION) THEN "cleanup" ELSE @]
  /\ UNCHANGED <<lt, svc, host, window>>

(***************************************************************************)
(* Steps 2a, 2b, and tries = 3, final_text = processed_text.               *)
(***************************************************************************)
CleanupStep(p) ==
  /\ pc[p] = "cleanup"
  /\ lp' = [lp EXCEPT ![p] = BeforeLoop(lp[p].text, Cleanup(lp[p].processed_text))]
  /\ pc' = [pc EXCEPT ![p] = "loop"]
  /\ UNCHANGED <<lt, svc, host, window>>

\* The server has answered r to the text t.
Served(s, t, r) ==
  [calls |-> s.calls + 1, sent |-> t, reply |-> r,
   all_empty |-> s.all_empty /\ r.kind = "matches" /\ r.matches = <<>>,
   replies |-> Append(s.replies, r)]

\* Round with processed_text kept in one place for every invocation, the
\* first invocation's frame, as a module-level variable would be.
RoundSharedText(p, R) ==
  /\ pc[p] = "loop"
  /\ \E r \in R :
       LET f   == lp[p]
           res == langtool(lp[1].processed_text, r)
       IN  /\ svc' = [svc EXCEPT ![p] = Served(@, lp[1].processed_text, r)]
           /\ IF res.raised
              THEN /\ pc' = [pc EXCEPT ![p] = "raised"]
                   /\ lp' = lp
              ELSE IF res.text = lp[1].processed_text \/ f.tries = 0
              THEN /\ pc' = [pc EXCEPT ![p] = "done"]
                   /\ lp' = [lp EXCEPT ![p].new_text = res.text,
                                       ![p].final_text = res.text]
              ELSE /\ pc' = pc
                   /\ lp' = [lp EXCEPT ![1].processed_text = res.text,
                                       ![p].new_text = res.text,
                                       ![p].tries = @ - 1]
  /\ UNCHANGED <<lt, host, window>>

\* Round with steps 1 and 2 run again on what langtool returned.
RoundNormalizingAgain(p, R) ==
  /\ pc[p] = "loop"
  /\ \E r \in R :
       LET f   == lp[p]
           res == langtool(f.processed_text, r)
       IN  /\ svc' = [svc EXCEPT ![p] = Served(@, f.processed_text, r)]
           /\ IF res.raised
              THEN /\ pc' = [pc EXCEPT ![p] = "raised"]
                   /\ lp' = lp
              ELSE IF res.text = f.processed_text \/ f.tries = 0
              THEN /\ pc' = [pc EXCEPT ![p] = "done"]
                   /\ lp' = [lp EXCEPT ![p].new_text = res.text,
                                       ![p].final_text = res.text]
              ELSE /\ pc' = pc
                   /\ lp' = [lp EXCEPT ![p].new_text = res.text,
                                       ![p].processed_text = Normalize(res.text),
                                       ![p].tries = @ - 1]
  /\ UNCHANGED <<lt, host, window>>

\* Round without the test "new_text == processed_text": the loop ends only
\* when no tries are left.
RoundUntilNoTries(p, R) ==
  /\ pc[p] = "loop"
  /\ \E r \in R :
       LET f   == lp[p]
           res == langtool(f.processed_text, r)
       IN  /\ svc' = [svc EXCEPT ![p] = Served(@, f.processed_text, r)]
           /\ IF res.raised
              THEN /\ pc' = [pc EXCEPT ![p] = "raised"]
                   /\ lp' = lp
              ELSE IF f.tries = 0
              THEN /\ pc' = [pc EXCEPT ![p] = "done"]
                   /\ lp' = [lp EXCEPT ![p].new_text = res.text,
                                       ![p].final_text = res.text]
              ELSE /\ pc' = pc
                   /\ lp' = [lp EXCEPT ![p].new_text = res.text,
                                       ![p].processed_text = res.text,
                                       ![p].tries = @ - 1]
  /\ UNCHANGED <<lt, host, window>>

(***************************************************************************)
(* One pass of "while True": the call of langtool, answered by some reply  *)
(* of R, and the if/else after it with "tries -= 1".                       *)
(***************************************************************************)
Round(p, R) ==
  /\ pc[p] = "loop"
  /\ \E r \in R :
       LET f   == lp[p]
           res == langtool(f.processed_text, r)
       IN  /\ svc' = [svc EXCEPT ![p] = Served(@, f.processed_text, r)]
           /\ IF res.raised
              THEN /\ pc' = [pc EXCEPT ![p] = "raised"]
                   /\ lp' = lp
              ELSE IF res.text = f.processed_text \/ f.tries = 0
              THEN /\ pc' = [pc EXCEPT ![p] = "done"]
                   /\ lp' = [lp EXCEPT ![p].new_text = res.text,
                                       ![p].final_text = res.text]
              ELSE /\ pc' = pc
                   /\ lp' = [lp EXCEPT ![p].new_text = res.text,
                                       ![p].processed_text = res.text,
                                       ![p].tries = @ - 1]
  /\ UNCHANGED <<lt, host, window>>

(***************************************************************************)
(* langtool, statement by statement.                                       *)
(* Request: lines 116-151, the request and the reading of the reply.       *)
(***************************************************************************)
Request(p, R) ==
  /\ pc[p] = "loop"
  /\ \E r \in R :
       LET t == lp[p].processed_text
       IN  /\ svc' = [svc EXCEPT ![p] = Served(@, t, r)]
           /\ IF r.kind \in FailureKinds
              THEN /\ pc' = [pc EXCEPT ![p] = "returned"]
                   /\ lp' = [lp EXCEPT ![p].new_text = t]
                   /\ lt' = [lt EXCEPT ![p] = [IdleLangtool EXCEPT !.text = t]]
              ELSE IF RaisesBeforeLoop(r)
              THEN /\ pc' = [pc EXCEPT ![p] = "raised"]
                   /\ lp' = lp
                   /\ lt' = [lt EXCEPT ![p] = [IdleLangtool EXCEPT !.text = t]]
              ELSE /\ pc' = [pc EXCEPT ![p] = "for"]
                   /\ lp' = lp
                   /\ lt' = [lt EXCEPT ![p] =
                               [IdleLangtool EXCEPT
                                  !.text = t,
                                  !.matches = SortByOffset(r.matches)]]
  /\ UNCHANGED <<host, window>>

\* The loop's state, as ForBody takes it.
LoopState(l) ==
  [new_text_parts |-> l.new_text_parts, last_index |-> l.last_index,
   raised |-> FALSE]

\* Lines 153-192: the iteration for m = matches[match_i].
ForStep(p) ==
  /\ pc[p] = "for"
  /\ lt[p].match_i <= Len(lt[p].matches)
  /\ LET l  == lt[p]
         st == ForBody(l.text, l.matches[l.match_i], LoopState(l))
     IN  /\ lt' = [lt EXCEPT ![p].new_text_parts = st.new_text_parts,
                             ![p].last_index = st.last_index,
                             ![p].match_i = @ + 1]
         /\ pc' = [pc EXCEPT ![p] = IF st.raised THEN "raised" ELSE @]
  /\ UNCHANGED <<lp, svc, host, window>>

\* Lines 194-200: the tail, the join and the return.
ReturnStep(p) ==
  /\ pc[p] = "for"
  /\ lt[p].match_i > Len(lt[p].matches)
  /\ lt' = [lt EXCEPT ![p].text = Joined(lt[p].text, LoopState(lt[p]))]
  /\ lp' = [lp EXCEPT ![p].new_text = Joined(lt[p].text, LoopState(lt[p]))]
  /\ pc' = [pc EXCEPT ![p] = "returned"]
  /\ UNCHANGED <<svc, host, window>>


(***************************************************************************)
(* The host: MainWindow.transcribe_audio_b64 emits audioReceived with the  *)
(* payload, and the connected handle_audio_transcription runs to its end   *)
(* before the next payload is taken.  Its calls go to the transcriber, to  *)
(* langtool_process (invocation 1 of Procs) and to ydotool; host.calls     *)
(* lists them for the payload in hand.                                     *)
(***************************************************************************)
Call(fn, arg) == [fn |-> fn, arg |-> arg]

SkippedEmptyAudio == <<"[", "T", "r", "a", "n", "s", "c", "r", "i", "p", "t", "i", "o", "n", " ", "S", "k", "i", "p", "p", "e", "d", ":", " ", "E", "m", "p", "t", "y", " ", "A", "u", "d", "i", "o", "]">>

TranscriptionError == <<"[", "T", "r", "a", "n", "s", "c", "r", "i", "p", "t", "i", "o", "n", " ", "E", "r", "r", "o", "r", "]">>

\* Transcriber.transcribe_base64: the text for the audio.  For audio that
\* is not empty it is what the recognizer heard, or one of the bracketed
\* error texts; nothing is raised.
transcribe_base64(base64_audio_data, heard) ==
  IF base64_audio_data = <<>> THEN SkippedEmptyAudio ELSE heard

\* window.py 279-287 and main.py 135: a payload arrives and the handler is
\* entered with it.
AudioReceived(A) ==
  /\ host.pc \in {"idle", "handled"}
  /\ \E audio \in A : host' = [IdleHost EXCEPT !.pc = "handler", !.audio = audio]
  /\ UNCHANGED <<pc, lp, lt, svc, window>>

\* main.py 66-70; a Transcriber is always true.
Transcribe(T) ==
  /\ host.pc = "handler"
  /\ \E heard \in T :
       host' = [host EXCEPT
                  !.pc = "transcribed",
                  !.raw_transcription = transcribe_base64(host.audio, heard),
                  !.calls = Append(@, Call("transcribe_base64", host.audio))]
  /\ UNCHANGED <<pc, lp, lt, svc, window>>

\* main.py 73: langtool_process(raw_transcription) is entered.
ProcessCalled ==
  /\ host.pc = "transcribed"
  /\ host' = [host EXCEPT
                !.pc = "processing",
                !.calls = Append(@, Call("langtool_process", host.raw_transcription))]
  /\ pc' = [pc EXCEPT ![1] = "punctuation"]
  /\ lp' = [lp EXCEPT ![1] = Entered(host.raw_transcription)]
  /\ lt' = [lt EXCEPT ![1] = IdleLangtool]
  /\ svc' = [svc EXCEPT ![1] = IdleService]
  /\ UNCHANGED window

\* main.py 73-74: langtool_process has returned.
ProcessReturned ==
  /\ host.pc = "processing"
  /\ pc[1] = "done"
  /\ host' = [host EXCEPT !.pc = "returned",
                          !.processed_transcription = lp[1].final_text]
  /\ UNCHANGED <<pc, lp, lt, svc, window>>

\* main.py 73: langtool_process has raised; nothing in the handler catches
\* it, and the handler is left with the exception.
ProcessRaised ==
  /\ host.pc = "processing"
  /\ pc[1] = "raised"
  /\ host' = [host EXCEPT !.pc = "raised"]
  /\ UNCHANGED <<pc, lp, lt, svc, window>>

\* TypeText without "if processed_transcription:".
TypeTextAlways ==
  /\ host.pc = "returned"
  /\ host' = [host EXCEPT
                !.pc = "handled",
                !.calls = Append(@, Call("ydotool", host.processed_transcription))]
  /\ UNCHANGED <<pc, lp, lt, svc, window>>

\* main.py 77-90: ydotool is run when there is text; whatever it raises is
\* caught and logged.
TypeText ==
  /\ host.pc = "returned"
  /\ host' = [host EXCEPT
                !.pc = "handled",
                !.calls = IF host.processed_transcription # <<>>
                          THEN Append(@, Call("ydotool", host.processed_transcription))
                          ELSE @]
  /\ UNCHANGED <<pc, lp, lt, svc, window>>

(***************************************************************************)
(* The window and the DBus service.  pydbus and Qt dispatch from the one   *)
(* event loop that app.exec() runs, so a handler runs to its end before    *)
(* the next one starts.  The page and its audio manager are outside: the   *)
(* page runs a toggle script at some time, and tells the window a mic      *)
(* status at some time.                                                    *)
(***************************************************************************)
MaxPending == 2

MaxStatuses == 3

\* MainWindow.is_recording, the property.
MainWindow_is_recording == window._is_recording

\* DictationService.is_recording, the property read over DBus.
DictationService_is_recording == MainWindow_is_recording

\* DictationService.toggle_recording: the window's toggle_recording is
\* queued for the event loop and True is returned.
DictationService_toggle_recording ==
  /\ ~window.quit
  /\ window.timers + window.scripts < MaxPending
  /\ window' = [window EXCEPT !.timers = @ + 1]
  /\ UNCHANGED <<pc, lp, lt, svc, host>>

\* MainWindow_toggle_recording that also turns the flag over.
ToggleRecordingTurnsFlag ==
  /\ ~window.quit
  /\ window.timers > 0
  /\ window' = [window EXCEPT !.timers = @ - 1, !.scripts = @ + 1,
                              !._is_recording = ~@]
  /\ UNCHANGED <<pc, lp, lt, svc, host>>

\* MainWindow.toggle_recording, run by the timer: the script is handed to
\* the page, and nothing of the window is written.
MainWindow_toggle_recording ==
  /\ ~window.quit
  /\ window.timers > 0
  /\ window' = [window EXCEPT !.timers = @ - 1, !.scripts = @ + 1]
  /\ UNCHANGED <<pc, lp, lt, svc, host>>

\* The page runs "window.toggleRecording()"; what the audio manager does
\* with it reaches the window as a mic status, if at all.
RunJavaScript ==
  /\ ~window.quit
  /\ window.scripts > 0
  /\ window' = [window EXCEPT !.scripts = @ - 1]
  /\ UNCHANGED <<pc, lp, lt, svc, host>>

\* MainWindow.on_mic_status_changed(is_active)
on_mic_status_changed(is_active) ==
  /\ ~window.quit
  /\ Len(window.statuses) < MaxStatuses
  /\ window' = [window EXCEPT
                  !._is_recording = is_active,
                  !.recording_overlay = IF is_active THEN "shown" ELSE "hidden",
                  !.statuses = Append(@, is_active)]
  /\ UNCHANGED <<pc, lp, lt, svc, host>>

\* MainWindow.closeEvent: the main window goes to the tray, the overlay
\* stays as it is.
closeEvent ==
  /\ ~window.quit
  /\ window.visible
  /\ window' = [window EXCEPT !.visible = FALSE]
  /\ UNCHANGED <<pc, lp, lt, svc, host>>

\* "Show" of the tray menu.
show ==
  /\ ~window.quit
  /\ ~window.visible
  /\ window' = [window EXCEPT !.visible = TRUE]
  /\ UNCHANGED <<pc, lp, lt, svc, host>>

\* MainWindow.quit_application: the overlay is closed and the event loop
\* ends; nothing queued is run after it.
quit_application ==
  /\ ~window.quit
  /\ window' = [window EXCEPT !.recording_overlay = "closed", !.quit = TRUE]
  /\ UNCHANGED <<pc, lp, lt, svc, host>>

(***************************************************************************)
(* Inputs.                                                                 *)
(***************************************************************************)
GoToTheParkPeriod == <<"g", "o", " ", "t", "o", " ", "t", "h", "e", " ", "p", "a", "r", "k", " ", "p", "e", "r", "i", "o", "d">>

GoToThePark == <<"g", "o", " ", "t", "o", " ", "t", "h", "e", " ", "p", "a", "r", "k", ".">>

IReadAPeriodical == <<"I", " ", "r", "e", "a", "d", " ", "a", " ", "p", "e", "r", "i", "o", "d", "i", "c", "a", "l">>

HelloWorld == <<"h", "e", "l", "l", "o", " ", "w", "o", "r", "l", "d">>

TheCatSat == <<"t", "h", "e", " ", "c", "a", "t", " ", "s", "a", "t">>

APeriod == <<"a", " ", "p", "e", "r", "i", "o", "d">>

Abc == <<"a", "b", "c">>

CommaEmile == <<",", " ", "É", "m", "i", "l", "e">>

CommaBob == <<",", " ", "B", "o", "b">>

\* The pieces the generated transcripts are made of: every spoken phrase,
\* plain words, whitespace and marks.
Pieces ==
  {PUNCTUATION[k].word : k \in DOMAIN PUNCTUATION}
    \cup {<<"P", "e", "r", "i", "o", "d">>, <<"g", "o">>, <<"B", "o", "b">>,
          <<"p", "e", "r", "i", "o", "d", "i", "c", "a", "l">>,
          <<"P", "e", "r", "i", "o", "d", "i", "c", "a", "l">>,
          <<" ">>, <<".">>, <<",">>}

MaxPieces == 3

RECURSIVE Concat(_)
Concat(ps) == IF ps = <<>> THEN <<>> ELSE Head(ps) \o Concat(Tail(ps))

\* The transcripts the punctuation steps are run on.
NormInputs ==
  {Concat(ps) : ps \in UNION {[1..n -> Pieces] : n \in 0..MaxPieces}}
    \cup {GoToTheParkPeriod, IReadAPeriodical, CommaEmile}

\* The transcripts langtool_process is run on.
ProcessInputs == {Abc, APeriod, GoToTheParkPeriod, HelloWorld}

(***************************************************************************)
(* Replies of the server.                                                  *)
(***************************************************************************)
X == <<"X">>

Y == <<"Y">>

\* A candidate that steps 1 and 2 would not leave as it is.
SpaceDot == <<" ", ".">>

Other == "UPPERCASE_SENTENCE_START"

Skipped == "TOO_LONG_SENTENCE"

AbsentKeys == {"offset", "length", "rule", "replacements", "value"}

FailureReplies == {Reply(k, <<>>) : k \in FailureKinds \cup {"json_scalar"}}

\* Elements that lack one key.
MalformedMatches == {Match(0, 1, Other, <<X>>, a) : a \in AbsentKeys}

\* What a match does with its span: rule id and candidates.
Policies ==
  {<<Other, <<X>>>>, <<Other, <<Y, X>>>>, <<Other, <<>>>>,
   <<Skipped, <<X>>>>, <<Skipped, <<>>>>}

MaxLoopOffset == 1

\* In the loop of langtool_process a reply holds one match at most.
LoopMatches ==
  {Match(o, n, Other, <<X>>, "none") : o \in 0..MaxLoopOffset, n \in {0, 1}}
    \cup {Match(o, n, Other, <<>>, "none") : o \in 0..MaxLoopOffset, n \in {0, 1}}
    \cup {Match(o, 1, Skipped, <<X>>, "none") : o \in 0..MaxLoopOffset}
    \cup {Match(1, 0, Other, <<SpaceDot>>, "none")}
    \cup MalformedMatches

LoopReplies ==
  FailureReplies \cup {Reply("matches", <<>>)}
    \cup {Reply("matches", <<m>>) : m \in LoopMatches}

MaxMatches == 2

\* For one call of langtool on Abc: every list of up to MaxMatches matches.
RoundMatches ==
  {Match(o, n, pol[1], pol[2], "none") :
     o \in 0..(Len(Abc) - 1), n \in {0, 2}, pol \in Policies}
    \cup {Match(Len(Abc), 0, Other, <<X>>, "none"),
          Match(Len(Abc) + 1, 2, Other, <<>>, "none")}
    \cup MalformedMatches

ListsOf(S, n) == UNION {[1..k -> S] : k \in 0..n}

\* The examples of the specification's section 8.
HelloWorldReplies ==
  {Reply("matches", <<Match(0, 5, Other, <<<<"H", "e", "l", "l", "o">>, <<"H", "i">>>>, "none")>>),
   Reply("matches", <<Match(0, 5, Other, <<<<"H", "e", "l", "l", "o">>>>, "none"),
                      Match(3, 2, Other, <<<<"H", "i">>>>, "none")>>),
   Reply("matches", <<Match(3, 2, Other, <<<<"H", "i">>>>, "none"),
                      Match(0, 5, Other, <<<<"H", "e", "l", "l", "o">>>>, "none")>>)}

TheCatSatReplies ==
  {Reply("matches", <<Match(o, 3, Other, <<>>, "none")>>) : o \in {4, 6}}

RoundReplies(text) ==
  IF text = HelloWorld THEN HelloWorldReplies
  ELSE IF text = TheCatSat THEN TheCatSatReplies
  ELSE FailureReplies
         \cup {Reply("matches", ms) : ms \in ListsOf(RoundMatches, MaxMatches)}

RoundTexts == {Abc, HelloWorld, TheCatSat}

(***************************************************************************)
(* Specifications.  In each, invocation 1 runs and invocation 2 is idle.   *)
(***************************************************************************)
Idle(p) == pc[p] = "idle" /\ lp[p] = IdleFrame

\* langtool_process on a transcript, against any server.
Init ==
  /\ \E text \in ProcessInputs :
       /\ pc = [p \in Procs |-> IF p = 1 THEN "punctuation" ELSE "idle"]
       /\ lp = [p \in Procs |-> IF p = 1 THEN Entered(text) ELSE IdleFrame]
  /\ lt = [p \in Procs |-> IdleLangtool]
  /\ svc = [p \in Procs |-> IdleService]
  /\ host = IdleHost
  /\ window = IdleWindow

Next ==
  \E p \in Procs :
    \/ PunctuationStep(p)
    \/ CleanupStep(p)
    \/ Round(p, LoopReplies)

Spec == Init /\ [][Next]_vars

\* Steps 1 and 2 of langtool_process alone, on the generated transcripts.
InitNorm ==
  /\ \E text \in NormInputs :
       /\ pc = [p \in Procs |-> IF p = 1 THEN "punctuation" ELSE "idle"]
       /\ lp = [p \in Procs |-> IF p = 1 THEN Entered(text) ELSE IdleFrame]
  /\ lt = [p \in Procs |-> IdleLangtool]
  /\ svc = [p \in Procs |-> IdleService]
  /\ host = IdleHost
  /\ window = IdleWindow

NextNorm ==
  \E p \in Procs :
    \/ PunctuationStep(p)
    \/ CleanupStep(p)

SpecNorm == InitNorm /\ [][NextNorm]_vars

\* One call of langtool, statement by statement: the first call that
\* langtool_process makes on a transcript that steps 1 and 2 leave as it is.
InitRound ==
  /\ \E text \in RoundTexts :
       /\ pc = [p \in Procs |-> IF p = 1 THEN "loop" ELSE "idle"]
       /\ lp = [p \in Procs |->
                  IF p = 1 THEN BeforeLoop(text, Normalize(text)) ELSE IdleFrame]
  /\ lt = [p \in Procs |-> IdleLangtool]
  /\ svc = [p \in Procs |-> IdleService]
  /\ host = IdleHost
  /\ window = IdleWindow

NextRound ==
  \E p \in Procs :
    \/ Request(p, RoundReplies(lp[p].processed_text))
    \/ ForStep(p)
    \/ ReturnStep(p)

SpecRound == InitRound /\ [][NextRound]_vars

\* Two invocations of langtool_process at once, each on its own transcript,
\* their statements and service calls interleaved in every order.
PairInputs == {Abc, APeriod}

PairReplies ==
  {Reply("request_failed", <<>>), Reply("json_scalar", <<>>),
   Reply("matches", <<>>),
   Reply("matches", <<Match(0, 0, Other, <<X>>, "none")>>),
   Reply("matches", <<Match(0, 1, Other, <<Y>>, "none")>>),
   Reply("matches", <<Match(0, 1, Other, <<X>>, "offset")>>)}

InitPair ==
  /\ pc = [p \in Procs |-> "punctuation"]
  /\ lp \in [Procs -> {Entered(text) : text \in PairInputs}]
  /\ lt = [p \in Procs |-> IdleLangtool]
  /\ svc = [p \in Procs |-> IdleService]
  /\ host = IdleHost
  /\ window = IdleWindow

NextPair ==
  \E p \in Procs :
    \/ PunctuationStep(p)
    \/ CleanupStep(p)
    \/ Round(p, PairReplies)

SpecPair == InitPair /\ [][NextPair]_vars

\* The host handling one payload after another.
HostAudio == {<<>>, <<"U", "k", "l", "G">>}

HostTranscripts == {<<>>, <<" ">>, Abc, APeriod, TranscriptionError}

\* The last reply replaces the first three characters by the empty string.
HostReplies ==
  PairReplies
    \cup {Reply("matches", <<Match(0, 3, Other, <<<<>>>>, "none")>>)}

InitHost ==
  /\ pc = [p \in Procs |-> "idle"]
  /\ lp = [p \in Procs |-> IdleFrame]
  /\ lt = [p \in Procs |-> IdleLangtool]
  /\ svc = [p \in Procs |-> IdleService]
  /\ host = IdleHost
  /\ window = IdleWindow

NextHost ==
  \/ AudioReceived(HostAudio)
  \/ Transcribe(HostTranscripts)
  \/ ProcessCalled
  \/ PunctuationStep(1)
  \/ CleanupStep(1)
  \/ Round(1, HostReplies)
  \/ ProcessReturned
  \/ ProcessRaised
  \/ TypeText

SpecHost == InitHost /\ [][NextHost]_vars

\* The window under DBus calls, mic statuses and the tray menu.
InitWindow ==
  /\ pc = [p \in Procs |-> "idle"]
  /\ lp = [p \in Procs |-> IdleFrame]
  /\ lt = [p \in Procs |-> IdleLangtool]
  /\ svc = [p \in Procs |-> IdleService]
  /\ host = IdleHost
  /\ window = IdleWindow

NextWindow ==
  \/ DictationService_toggle_recording
  \/ MainWindow_toggle_recording
  \/ RunJavaScript
  \/ \E is_active \in BOOLEAN : on_mic_status_changed(is_active)
  \/ closeEvent
  \/ show
  \/ quit_application

SpecWindow == InitWindow /\ [][NextWindow]_vars

(***************************************************************************)
(* Properties.                                                             *)
(***************************************************************************)
Running == {p \in Procs : pc[p] # "idle"}

\* The reply of p's last call held matches, each with every key.
WellFormedReply(p) ==
  /\ svc[p].reply.kind = "matches"
  /\ \A i \in DOMAIN svc[p].reply.matches : svc[p].reply.matches[i].absent = "none"

CountOf(c, t) == Cardinality({i \in DOMAIN t : t[i] = c})

(***************************************************************************)
(* C1: whatever the transcript and whatever the server answers, also when  *)
(* every answer changes the text, langtool_process calls the server at     *)
(* most 4 times: it is at the top of its loop only with calls + tries = 3, *)
(* and after the fourth call it has returned or raised.                    *)
(***************************************************************************)
C1_AtMostFourCalls ==
  \A p \in Running :
    /\ svc[p].calls <= 4
    /\ svc[p].calls = 4 => pc[p] \in {"done", "raised"}
    /\ pc[p] = "loop" => svc[p].calls + lp[p].tries = 3 /\ lp[p].tries >= 0

\* Four calls were made, each reply changing the text.
C1_Witness ==
  /\ pc[1] = "done"
  /\ svc[1].calls = 4
  /\ lp[1].final_text # svc[1].sent

(***************************************************************************)
(* C2: when the last call failed (no connection or timeout, a bad status,  *)
(* a body that is not JSON, a body without the key "matches"), nothing is  *)
(* raised, no further call is made, and langtool_process returns the text  *)
(* sent in that call, which in the first call is the transcript after      *)
(* steps 1 and 2.  A JSON body that is null, a number or a boolean has no  *)
(* key "matches" either.                                                   *)
(***************************************************************************)
C2_FailedCallReturnsSentText ==
  \A p \in Running :
    (svc[p].calls >= 1 /\ svc[p].reply.kind \in FailureKinds \cup {"json_scalar"})
      => /\ pc[p] = "done"
         /\ lp[p].final_text = svc[p].sent
         /\ svc[p].calls = 1 => lp[p].final_text = Normalize(lp[p].text)

\* The same for the replies on which the test '"matches" not in data' is
\* defined: these the source handles as C2 says.
FailureKindsReturnSentText ==
  \A p \in Running :
    (svc[p].calls >= 1 /\ svc[p].reply.kind \in FailureKinds)
      => /\ pc[p] = "done"
         /\ lp[p].final_text = svc[p].sent
         /\ svc[p].calls = 1 => lp[p].final_text = Normalize(lp[p].text)

(***************************************************************************)
(* C3: a reply that is JSON and has "matches", with an element that lacks  *)
(* offset, length, rule, replacements or a replacement's value, is taken   *)
(* as a failed call: nothing is raised and the round returns the text it   *)
(* was sent.                                                               *)
(***************************************************************************)
C3_MalformedMatchIsSoftFailure ==
  \A p \in Running :
    (svc[p].calls >= 1 /\ svc[p].reply.kind = "matches" /\ ~WellFormedReply(p))
      => /\ pc[p] # "raised"
         /\ lp[p].new_text = svc[p].sent

(***************************************************************************)
(* C4: when every reply is an empty list of matches, langtool_process      *)
(* returns what steps 1 and 2 make of the transcript.                      *)
(***************************************************************************)
C4_NoOpServiceGivesNormalizedInput ==
  \A p \in Running :
    (pc[p] = "done" /\ svc[p].all_empty)
      => lp[p].final_text = Normalize(lp[p].text)

\* ... on a transcript that steps 1 and 2 change.
C4_Witness ==
  /\ pc[1] = "done"
  /\ svc[1].all_empty
  /\ svc[1].calls = 1
  /\ lp[1].text = APeriod
  /\ lp[1].final_text = <<"a", ".">>

(***************************************************************************)
(* One call of langtool, under SpecRound.                                  *)
(***************************************************************************)

\* The end of the most recently applied match among the first i of ms
\* (0 when none was applied): what last_index should be after them.
RECURSIVE LastEnd(_, _)
LastEnd(ms, i) ==
  IF i = 0 THEN 0
  ELSE IF ms[i].offset >= LastEnd(ms, i - 1)
       THEN ms[i].offset + ms[i].length
       ELSE LastEnd(ms, i - 1)

\* The matches of ms that are applied, not discarded.
AppliedIn(ms) == {i \in DOMAIN ms : ms[i].offset >= LastEnd(ms, i - 1)}

\* p is in the for loop at an element that has every key.
AtMatch(p) ==
  /\ pc[p] = "for"
  /\ lt[p].match_i <= Len(lt[p].matches)
  /\ lt[p].matches[lt[p].match_i].absent = "none"

CurrentMatch(p) == lt[p].matches[lt[p].match_i]

\* The iteration at CurrentMatch(p) appends the gap before the span and then
\* the text e, and moves last_index to the end of the span.
Emits(p, e) ==
  LET m == CurrentMatch(p)
  IN  /\ lt'[p].new_text_parts =
           lt[p].new_text_parts
             \o <<Slice(lt[p].text, lt[p].last_index, m.offset), e>>
      /\ lt'[p].last_index = m.offset + m.length

\* langtool has returned from a call whose reply was the one match m.
ReturnedFromOne(p, m) ==
  /\ pc[p] = "returned"
  /\ svc[p].reply = Reply("matches", <<m>>)

\* text with the span of m replaced by e.
WithSpan(text, m, e) ==
  Slice(text, 0, m.offset) \o e \o SliceFrom(text, m.offset + m.length)

(***************************************************************************)
(* C5: a match whose offset is below last_index is discarded: its          *)
(* iteration appends nothing and leaves last_index alone, last_index is    *)
(* always the end of the most recently applied match, and the returned     *)
(* text holds the replacements of the applied matches only (one X per      *)
(* applied match that proposes X, one Y per applied match that proposes    *)
(* Y).  For "hello world" with (0, 5, Hello) and (3, 2, Hi), in either     *)
(* order, the result is "Hello world".                                     *)
(***************************************************************************)
C5_Discards ==
  \A p \in Running :
    (AtMatch(p) /\ CurrentMatch(p).offset < lt[p].last_index)
      => /\ pc'[p] = "for"
         /\ lt'[p].new_text_parts = lt[p].new_text_parts
         /\ lt'[p].last_index = lt[p].last_index

C5_Output ==
  \A p \in Running :
    /\ (pc[p] = "for" /\ WellFormedReply(p))
         => lt[p].last_index = LastEnd(lt[p].matches, lt[p].match_i - 1)
    /\ (pc[p] = "returned" /\ WellFormedReply(p) /\ svc[p].sent = Abc)
         => LET ms == SortByOffset(svc[p].reply.matches)
                proposing(v) ==
                  {i \in AppliedIn(ms) :
                     /\ ms[i].rule \notin SkippedRules
                     /\ ms[i].replacements # <<>>
                     /\ ms[i].replacements[1] = v}
            IN  /\ CountOf("X", lp[p].new_text) = Cardinality(proposing(X))
                /\ CountOf("Y", lp[p].new_text) = Cardinality(proposing(Y))
    /\ (pc[p] = "returned" /\ svc[p].sent = HelloWorld
          /\ Len(svc[p].reply.matches) = 2)
         => lp[p].new_text = <<"H", "e", "l", "l", "o", " ", "w", "o", "r", "l", "d">>

C5_OverlapDiscarded == [][C5_Discards]_vars /\ []C5_Output

\* Of two matches proposing X and Y on "abc", the second starts inside the
\* span of the first: only X is in the result.
C5_Witness ==
  /\ pc[1] = "returned"
  /\ svc[1].reply = Reply("matches", <<Match(0, 2, Other, <<X>>, "none"),
                                       Match(1, 2, Other, <<Y, X>>, "none")>>)
  /\ lp[1].new_text = <<"X", "c">>

(***************************************************************************)
(* C6: an applied match that is not skipped and has candidates emits its   *)
(* first candidate, whatever the others are; alone in a reply, it turns    *)
(* the text into the text with its span replaced by the first candidate.   *)
(* "hello world" with (0, 5, [Hello, Hi]) becomes "Hello world".           *)
(***************************************************************************)
C6_Step ==
  \A p \in Running :
    (AtMatch(p) /\ CurrentMatch(p).offset >= lt[p].last_index
       /\ CurrentMatch(p).rule \notin SkippedRules
       /\ CurrentMatch(p).replacements # <<>>)
      => Emits(p, CurrentMatch(p).replacements[1])

C6_Output ==
  \A p \in Running :
    \A m \in RoundMatches \cup {Match(0, 5, Other, <<<<"H", "e", "l", "l", "o">>, <<"H", "i">>>>, "none")} :
      (ReturnedFromOne(p, m) /\ m.absent = "none"
         /\ m.rule \notin SkippedRules /\ m.replacements # <<>>)
        => lp[p].new_text = WithSpan(svc[p].sent, m, m.replacements[1])

C6_FirstCandidateWins == [][C6_Step]_vars /\ []C6_Output

C6_Witness ==
  /\ ReturnedFromOne(1, Match(0, 5, Other, <<<<"H", "e", "l", "l", "o">>, <<"H", "i">>>>, "none"))
  /\ svc[1].sent = HelloWorld
  /\ lp[1].new_text = <<"H", "e", "l", "l", "o", " ", "w", "o", "r", "l", "d">>

(***************************************************************************)
(* C7: an applied match whose rule is skipped emits the characters of its  *)
(* span as they are, with or without candidates; a reply made of skipped   *)
(* matches returns the text it was sent.                                   *)
(***************************************************************************)
C7_Step ==
  \A p \in Running :
    (AtMatch(p) /\ CurrentMatch(p).offset >= lt[p].last_index
       /\ CurrentMatch(p).rule \in SkippedRules)
      => Emits(p, Slice(lt[p].text, CurrentMatch(p).offset,
                        CurrentMatch(p).offset + CurrentMatch(p).length))

C7_Output ==
  \A p \in Running :
    (pc[p] = "returned" /\ WellFormedReply(p)
       /\ \A i \in DOMAIN svc[p].reply.matches :
            svc[p].reply.matches[i].rule \in SkippedRules)
      => lp[p].new_text = svc[p].sent

C7_SkippedRuleKeepsSpan == [][C7_Step]_vars /\ []C7_Output

C7_Witness ==
  /\ ReturnedFromOne(1, Match(1, 2, Skipped, <<X>>, "none"))
  /\ lp[1].new_text = Abc

(***************************************************************************)
(* C8: an applied match that is not skipped, has no candidates and has     *)
(* length > 0 emits its span between one "[" and one "]"; alone in a       *)
(* reply, it turns the text into the text with the span so enclosed.       *)
(***************************************************************************)
Bracketed(text, m) ==
  <<"[">> \o Slice(text, m.offset, m.offset + m.length) \o <<"]">>

C8_Step ==
  \A p \in Running :
    (AtMatch(p) /\ CurrentMatch(p).offset >= lt[p].last_index
       /\ CurrentMatch(p).rule \notin SkippedRules
       /\ CurrentMatch(p).replacements = <<>>
       /\ CurrentMatch(p).length > 0)
      => Emits(p, Bracketed(lt[p].text, CurrentMatch(p)))

C8_Output ==
  \A p \in Running :
    \A m \in RoundMatches :
      (ReturnedFromOne(p, m) /\ m.absent = "none"
         /\ m.rule \notin SkippedRules /\ m.replacements = <<>> /\ m.length > 0)
        => /\ lp[p].new_text = WithSpan(svc[p].sent, m, Bracketed(svc[p].sent, m))
           /\ CountOf("[", lp[p].new_text) = 1
           /\ CountOf("]", lp[p].new_text) = 1

C8_BracketsWhenNoCandidate == [][C8_Step]_vars /\ []C8_Output

C8_Witness ==
  /\ ReturnedFromOne(1, Match(1, 2, Other, <<>>, "none"))
  /\ lp[1].new_text = <<"a", "[", "b", "c", "]">>

(***************************************************************************)
(* C9, as stated: on "the cat sat", one match with no candidates, length 3 *)
(* and offset 6 gives "the [cat] sat".                                     *)
(***************************************************************************)
C9_Offset6GivesBracketedCat ==
  \A p \in Running :
    (ReturnedFromOne(p, Match(6, 3, Other, <<>>, "none"))
       /\ svc[p].sent = TheCatSat)
      => lp[p].new_text = <<"t", "h", "e", " ", "[", "c", "a", "t", "]", " ", "s", "a", "t">>

(***************************************************************************)
(* C9, amended: "cat" is at offset 4.  On "the cat sat", one match with no *)
(* candidates, length 3 and offset 4 gives "the [cat] sat"; offset 6 is    *)
(* the span "t s" and gives "the ca[t s]at".                               *)
(***************************************************************************)
C9_Offset4GivesBracketedCat ==
  \A p \in Running :
    /\ (ReturnedFromOne(p, Match(4, 3, Other, <<>>, "none"))
          /\ svc[p].sent = TheCatSat)
         => lp[p].new_text = <<"t", "h", "e", " ", "[", "c", "a", "t", "]", " ", "s", "a", "t">>
    /\ (ReturnedFromOne(p, Match(6, 3, Other, <<>>, "none"))
          /\ svc[p].sent = TheCatSat)
         => lp[p].new_text = <<"t", "h", "e", " ", "c", "a", "[", "t", " ", "s", "]", "a", "t">>

C9_Witness ==
  /\ ReturnedFromOne(1, Match(4, 3, Other, <<>>, "none"))
  /\ svc[1].sent = TheCatSat
  /\ lp[1].new_text = <<"t", "h", "e", " ", "[", "c", "a", "t", "]", " ", "s", "a", "t">>

(***************************************************************************)
(* Steps 1 and 2, under SpecNorm.                                          *)
(***************************************************************************)

\* The phrase w stands at position j of t as a whole word, case ignored.
PhraseAt(t, j, w) ==
  /\ j >= 1
  /\ j + Len(w) - 1 <= Len(t)
  /\ \A k \in 1..Len(w) : Lower(t[j + k - 1]) = w[k]
  /\ j + Len(w) <= Len(t) => ~IsWordChar(t[j + Len(w)])

\* Where the occurrence of w at j ends (the position after it): after the
\* period that follows it, if one does.
OccurrenceEnd(t, j, w) ==
  IF j + Len(w) <= Len(t) /\ t[j + Len(w)] = "." THEN j + Len(w) + 1
  ELSE j + Len(w)

\* The occurrences of w that whitespace precedes, each with all of that
\* whitespace: <<first position, position after>>.
SpacedOccurrences(t, w) ==
  LET runStart(j) ==
        CHOOSE s \in 1..(j - 1) :
          /\ \A k \in s..(j - 1) : IsSpace(t[k])
          /\ s = 1 \/ ~IsSpace(t[s - 1])
  IN  {<<runStart(j), OccurrenceEnd(t, j, w)>> :
         j \in {x \in 2..Len(t) : IsSpace(t[x - 1]) /\ PhraseAt(t, x, w)}}

\* The occurrence of w at the start of the string.
StartOccurrence(t, w) ==
  IF PhraseAt(t, 1, w) THEN {<<1, OccurrenceEnd(t, 1, w)>>} ELSE {}

\* t with every span of occ replaced by the one character sym: the
\* characters outside the spans stay, in order, and each span's first
\* position holds sym.
ReplaceSpans(t, occ, sym) ==
  LET inside(i) == \E o \in occ : o[1] < i /\ i < o[2]
      first(i)  == \E o \in occ : o[1] = i
      kept      == SelectSeq([i \in 1..Len(t) |-> i], LAMBDA i : ~inside(i))
  IN  [k \in 1..Len(kept) |-> IF first(kept[k]) THEN sym ELSE t[kept[k]]]

\* What rule k is to make of t: the spaced occurrences of its phrase become
\* its symbol, and then the occurrence at the start does.
RuleResult(t, k) ==
  LET w == PUNCTUATION[k].word
      c == PUNCTUATION[k].sym
      a == ReplaceSpans(t, SpacedOccurrences(t, w), c)
  IN  ReplaceSpans(a, StartOccurrence(a, w), c)

(***************************************************************************)
(* C10: each rule replaces every occurrence of its phrase, taken as a      *)
(* whole word in any case after whitespace or at the start of the string,  *)
(* together with the whitespace before it and one period right after it,   *)
(* by the rule's symbol, and changes nothing else; so the symbol follows   *)
(* the preceding word directly and is not doubled.  "go to the park        *)
(* period" becomes "go to the park.".                                      *)
(***************************************************************************)
C10_Step ==
  \A p \in Running :
    pc[p] = "punctuation"
      => lp'[p].processed_text = RuleResult(lp[p].processed_text, lp[p].rule_i)

C10_Example ==
  \A p \in Running :
    (pc[p] = "loop" /\ lp[p].text = GoToTheParkPeriod)
      => lp[p].processed_text = GoToThePark

C10_PhraseBecomesSymbol == [][C10_Step]_vars /\ []C10_Example

\* The rule for "period" has just run on "go to the park period".
C10_Witness ==
  /\ pc[1] = "punctuation"
  /\ lp[1].text = GoToTheParkPeriod
  /\ lp[1].rule_i = 3
  /\ lp[1].processed_text = GoToThePark


\* Where the word (the maximal run of word characters) around position j
\* of t starts and ends.
RECURSIVE WordStart(_, _)
WordStart(t, j) ==
  IF j > 1 /\ IsWordChar(t[j - 1]) THEN WordStart(t, j - 1) ELSE j

RECURSIVE WordEnd(_, _)
WordEnd(t, j) ==
  IF j < Len(t) /\ IsWordChar(t[j + 1]) THEN WordEnd(t, j + 1) ELSE j

\* The spoken phrases that are one word.
WordPhrases ==
  {w \in {PUNCTUATION[k].word : k \in DOMAIN PUNCTUATION} :
     \A x \in 1..Len(w) : IsWordChar(w[x])}

\* A spoken phrase stands at position j of t, in any case, inside a longer
\* word: a word character precedes it or follows it.
InsideWord(t, j) ==
  \E w \in WordPhrases :
    /\ WordAt(t, j, w)
    /\ \/ j > 1 /\ IsWordChar(t[j - 1])
       \/ j + Len(w) <= Len(t) /\ IsWordChar(t[j + Len(w)])

\* The letters a one-word phrase starts with, in either case.
FirstLetters ==
  {c \in LowerSet \cup UpperSet : \E w \in WordPhrases : Lower(c) = w[1]}

\* Where the words of t that hold a phrase inside start, in order.
LongWordStarts(t) ==
  LET at == {x \in {j \in 1..Len(t) : t[j] \in FirstLetters} : InsideWord(t, x)}
      S  == {WordStart(t, j) : j \in at}
  IN  IF S = {} THEN <<>>
      ELSE SelectSeq([i \in 1..Len(t) |-> i], LAMBDA i : i \in S)

\* The words of t that hold a phrase inside, in order.
LongWords(t) ==
  LET starts == LongWordStarts(t)
  IN  [i \in 1..Len(starts) |-> SubSeq(t, starts[i], WordEnd(t, starts[i]))]

\* The word of t that starts at a follows a comma and whitespace.
AfterCommaAndSpace(t, a) ==
  \E c \in 1..(a - 2) :
    /\ t[c] = ","
    /\ \A i \in (c + 1)..(a - 1) : IsSpace(t[i])

(***************************************************************************)
(* C11, as stated: the words of the transcript that hold a spoken phrase   *)
(* inside ("periodical") are the same words, letter for letter, in the     *)
(* text that steps 1 and 2 produce.                                        *)
(***************************************************************************)
C11_LongWordsIdentical ==
  \A p \in Running :
    pc[p] = "loop" => LongWords(lp[p].processed_text) = LongWords(lp[p].text)

(***************************************************************************)
(* C11, amended: the rules of step 1 change no word that holds a phrase    *)
(* inside: after the last rule these words are the transcript's.  In the   *)
(* text that steps 1 and 2 produce these words stand in                    *)
(* the same order and differ from the transcript's in one case only, the   *)
(* capital first letter that step 2b lowercases in a word that follows a   *)
(* comma and whitespace.  "I read a periodical" stays as it is.            *)
(***************************************************************************)
C11_LongWordsKeptByRules ==
  \A p \in Running :
    /\ pc[p] = "cleanup"
         => LongWords(lp[p].processed_text) = LongWords(lp[p].text)
    /\ pc[p] = "loop"
         => LET out    == lp[p].processed_text
                before == LongWords(lp[p].text)
                after  == LongWords(out)
                starts == LongWordStarts(out)
            IN  /\ Len(after) = Len(before)
                /\ \A i \in DOMAIN before :
                     \/ after[i] = before[i]
                     \/ /\ before[i][1] \in UpperSet
                        /\ after[i] = <<Lower(before[i][1])>> \o Tail(before[i])
                        /\ AfterCommaAndSpace(out, starts[i])
    /\ (pc[p] = "loop" /\ lp[p].text = IReadAPeriodical)
         => lp[p].processed_text = IReadAPeriodical

\* Steps 1 and 2 have run on "I read a periodical".
C11_Witness ==
  /\ pc[1] = "loop"
  /\ lp[1].text = IReadAPeriodical
  /\ lp[1].processed_text = IReadAPeriodical

(***************************************************************************)
(* C12: of two invocations whose steps and service calls interleave in     *)
(* any order, each step reads and writes its own invocation's locals and   *)
(* exchange only, and each invocation stands where it would stand run      *)
(* alone against the replies it has received: same place in the loop, same *)
(* text to send next, same tries left, same returned text, same raise.     *)
(***************************************************************************)
C12_OwnStateOnly ==
  \A p \in Procs :
    (pc'[p] # pc[p] \/ lp'[p] # lp[p] \/ lt'[p] # lt[p] \/ svc'[p] # svc[p])
      => \A q \in Procs \ {p} :
           pc'[q] = pc[q] /\ lp'[q] = lp[q] /\ lt'[q] = lt[q] /\ svc'[q] = svc[q]

C12_AsAlone ==
  \A p \in Running :
    pc[p] \in {"loop", "done", "raised"}
      => LET alone == langtool_process(lp[p].text, svc[p].replies)
         IN  /\ pc[p] = alone.outcome
             /\ pc[p] = "loop" => /\ lp[p].processed_text = alone.text
                                  /\ lp[p].tries = alone.tries
             /\ pc[p] = "done" => lp[p].final_text = alone.text

C12_InterleavedAsAlone == [][C12_OwnStateOnly]_vars /\ []C12_AsAlone

\* Invocation 1 has returned after two calls while invocation 2, on another
\* transcript, is between its first call and its second.
C12_Witness ==
  /\ pc[1] = "done" /\ svc[1].calls = 2
  /\ pc[2] = "loop" /\ svc[2].calls = 1
  /\ lp[1].text = Abc /\ lp[2].text = APeriod
  /\ lp[1].final_text = <<"Y", "b", "c">>
  /\ lp[2].processed_text = <<"X", "a", ".">>

(***************************************************************************)
(* C13: for the payload in hand the host's calls are, in this order, one   *)
(* to the transcriber with the payload, one to langtool_process with the   *)
(* transcriber's text as it is, and then at most one to ydotool, made only *)
(* when the text langtool_process returned is not empty and with that      *)
(* text.  When the handler has ended there were exactly the first two, and *)
(* the third exactly when the processed text is not empty.                 *)
(***************************************************************************)
C13_OneCallEachInOrder ==
  LET c == host.calls
  IN  /\ Len(c) <= 3
      /\ Len(c) >= 1 => c[1] = Call("transcribe_base64", host.audio)
      /\ Len(c) >= 2 => /\ c[2] = Call("langtool_process", host.raw_transcription)
                        /\ lp[1].text = host.raw_transcription
      /\ Len(c) = 3 => /\ c[3] = Call("ydotool", host.processed_transcription)
                       /\ host.processed_transcription # <<>>
                       /\ host.processed_transcription = lp[1].final_text
                       /\ pc[1] = "done"
      /\ host.pc \in {"idle", "handler"} => Len(c) = 0
      /\ host.pc = "transcribed" => Len(c) = 1
      /\ host.pc \in {"processing", "returned", "raised"} => Len(c) = 2
      /\ host.pc = "handled"
           => Len(c) = IF host.processed_transcription = <<>> THEN 2 ELSE 3

\* The payload was transcribed as "a period", processed to "a." and typed.
C13_Witness ==
  /\ host.pc = "handled"
  /\ host.calls = <<Call("transcribe_base64", <<"U", "k", "l", "G">>),
                    Call("langtool_process", APeriod),
                    Call("ydotool", <<"a", ".">>)>>

(***************************************************************************)
(* C14: the loop is entered with 3 tries.  A round sends processed_text    *)
(* and, unless it raises, has langtool's result for it as its output.      *)
(* When the output equals the text sent, or the round began with 0 tries,  *)
(* langtool_process returns that output; otherwise the output is the text  *)
(* the next round sends, tries is one less, and it is never below 0.       *)
(***************************************************************************)
C14_Round ==
  \A p \in Running :
    (pc[p] = "loop" /\ svc'[p].calls = svc[p].calls + 1 /\ pc'[p] # "raised")
      => LET sent   == lp[p].processed_text
             output == langtool(sent, svc'[p].reply).text
         IN  /\ svc'[p].sent = sent
             /\ lp'[p].new_text = output
             /\ IF output = sent \/ lp[p].tries = 0
                THEN /\ pc'[p] = "done"
                     /\ lp'[p].final_text = output
                ELSE /\ pc'[p] = "loop"
                     /\ lp'[p].processed_text = output
                     /\ lp'[p].tries = lp[p].tries - 1
                     /\ lp'[p].tries >= 0

C14_Tries ==
  \A p \in Running :
    /\ (pc[p] = "loop" /\ svc[p].calls = 0)
         => lp[p].tries = 3 /\ lp[p].processed_text = Normalize(lp[p].text)
    /\ pc[p] \in {"loop", "done", "raised"} => lp[p].tries \in 0..3

C14_LoopEndsOnFixpointOrNoTries == [][C14_Round]_vars /\ []C14_Tries

\* Three rounds have each changed the text; the fourth begins with 0 tries.
C14_Witness ==
  /\ pc[1] = "loop"
  /\ svc[1].calls = 3
  /\ lp[1].tries = 0
  /\ lp[1].processed_text = lp[1].new_text
  /\ lp[1].processed_text # svc[1].sent

(***************************************************************************)
(* C15: steps 1 and 2 run once, each rule once, and are over before the    *)
(* first call: no call is made while they run, the first call sends what   *)
(* they made of the transcript, and an invocation that is in its loop      *)
(* never goes back to them.  After a round that did not end the loop, the  *)
(* text to send next is what langtool returned, also when steps 1 and 2    *)
(* would change it.                                                        *)
(***************************************************************************)
C15_NeverBack ==
  \A p \in Running :
    pc[p] \in {"loop", "done", "raised"} => pc'[p] \in {"loop", "done", "raised"}

C15_Once ==
  \A p \in Running :
    /\ pc[p] \in {"punctuation", "cleanup"} => svc[p].calls = 0
    /\ pc[p] = "punctuation" => lp[p].rule_i \in 1..Len(PUNCTUATION)
    /\ pc[p] \in {"cleanup", "loop", "done", "raised"}
         => lp[p].rule_i = Len(PUNCTUATION) + 1
    /\ svc[p].calls = 1 => svc[p].sent = Normalize(lp[p].text)
    /\ (pc[p] = "loop" /\ svc[p].calls >= 1)
         => /\ lp[p].processed_text = lp[p].new_text
            /\ lp[p].new_text = langtool(svc[p].sent, svc[p].reply).text

C15_NormalizedOnceBeforeCalls == [][C15_NeverBack]_vars /\ []C15_Once

\* The second call has sent "a .bc", the first round's output as it was.
C15_Witness ==
  /\ svc[1].calls = 2
  /\ lp[1].text = Abc
  /\ svc[1].sent = <<"a", " ", ".", "b", "c">>
  /\ Normalize(svc[1].sent) # svc[1].sent

(***************************************************************************)
(* What a round is to return for text and the matches ms in offset order,  *)
(* told position by position of text: before the character at offset j     *)
(* stands what the applied matches with offset j emit, in their order, and *)
(* the character itself stays when no applied match spans it.              *)
(***************************************************************************)
InSpan(ms, j) ==
  \E k \in AppliedIn(ms) :
    ms[k].offset <= j /\ j < ms[k].offset + ms[k].length

EmittedAt(text, ms, j) ==
  LET at == SelectSeq([k \in 1..Len(ms) |-> k],
                      LAMBDA k : k \in AppliedIn(ms) /\ ms[k].offset = j)
  IN  Join([i \in 1..Len(at) |-> EmittedFor(text, ms[at[i]])])

RECURSIVE RebuiltFrom(_, _, _)
RebuiltFrom(text, ms, j) ==
  IF j > Len(text) THEN <<>>
  ELSE EmittedAt(text, ms, j)
         \o (IF j < Len(text) /\ ~InSpan(ms, j) THEN <<text[j + 1]>> ELSE <<>>)
         \o RebuiltFrom(text, ms, j + 1)

\* The characters of text that no applied match spans, in order.
OutsideSpans(text, ms) ==
  SelectSeq([j \in 1..Len(text) |-> j - 1], LAMBDA j : ~InSpan(ms, j))

\* The parts that ForBody appended as gaps: the odd ones.
GapsOf(parts) == [i \in 1..(Len(parts) \div 2) |-> parts[2 * i - 1]]

\* Every match of p's reply has its keys and lies within the text sent.
InRangeReply(p) ==
  /\ WellFormedReply(p)
  /\ \A i \in DOMAIN svc[p].reply.matches :
       LET m == svc[p].reply.matches[i]
       IN  m.offset >= 0 /\ m.length >= 0
             /\ m.offset + m.length <= Len(svc[p].sent)

(***************************************************************************)
(* C16: for matches that lie within the text, langtool returns the gaps of *)
(* its input and what the applied matches emit, in offset order, and then  *)
(* the tail.  The characters outside the applied spans are all there, once *)
(* each and in order: the gaps and the tail, joined, are the input without *)
(* the applied spans.  Offsets count in the input, whatever earlier        *)
(* matches have put in the output.                                         *)
(***************************************************************************)
C16_GapsEmittedAndTail ==
  \A p \in Running :
    (pc[p] = "returned" /\ InRangeReply(p))
      => LET text == svc[p].sent
             ms   == SortByOffset(svc[p].reply.matches)
             kept == OutsideSpans(text, ms)
         IN  /\ lp[p].new_text = RebuiltFrom(text, ms, 0)
             /\ Join(GapsOf(lt[p].new_text_parts))
                    \o SliceFrom(text, lt[p].last_index)
                  = [i \in 1..Len(kept) |-> text[kept[i] + 1]]
             /\ Len(lt[p].new_text_parts) = 2 * Cardinality(AppliedIn(ms))

\* "abc" with X inserted at offset 0 and then the span at offset 1, "bc",
\* put in brackets.
C16_Witness ==
  /\ pc[1] = "returned"
  /\ svc[1].reply = Reply("matches", <<Match(0, 0, Other, <<X>>, "none"),
                                       Match(1, 2, Other, <<>>, "none")>>)
  /\ lp[1].new_text = <<"X", "a", "[", "b", "c", "]">>

(***************************************************************************)
(* The orders a response can come in: ms taken in the order f, a           *)
(* permutation of its indices, and the permutations that leave matches of  *)
(* equal offset in their relative order.                                   *)
(***************************************************************************)
OrdersOf(n) ==
  {f \in [1..n -> 1..n] : \A i, j \in 1..n : i # j => f[i] # f[j]}

InOrder(ms, f) == [k \in 1..Len(ms) |-> ms[f[k]]]

KeepsTies(ms, f) ==
  \A a, b \in 1..Len(ms) :
    (a < b /\ ms[f[a]].offset = ms[f[b]].offset) => f[a] < f[b]

(***************************************************************************)
(* C17: the for loop goes through the matches of the response in ascending *)
(* offset, those of equal offset in the order the response has them; and   *)
(* the same response in any other order that keeps the matches of equal    *)
(* offset in their order gives the same result, text or exception.         *)
(***************************************************************************)
C17_SortedStableAnyOrder ==
  \A p \in Running :
    LET ms == svc[p].reply.matches
    IN  /\ pc[p] = "for"
          => \E f \in OrdersOf(Len(ms)) :
               /\ lt[p].matches = InOrder(ms, f)
               /\ KeepsTies(ms, f)
               /\ \A a, b \in 1..Len(ms) :
                    a < b => ms[f[a]].offset <= ms[f[b]].offset
        /\ (pc[p] \in {"returned", "raised"} /\ svc[p].reply.kind = "matches")
          => \A f \in OrdersOf(Len(ms)) :
               KeepsTies(ms, f)
                 => LET other == langtool(svc[p].sent, Reply("matches", InOrder(ms, f)))
                    IN  /\ other.raised = (pc[p] = "raised")
                        /\ pc[p] = "returned" => other.text = lp[p].new_text

\* The response lists the match at offset 1 before the match at offset 0:
\* X is inserted at 0 and "bc" replaced by Y.
C17_Witness ==
  /\ pc[1] = "returned"
  /\ svc[1].reply = Reply("matches", <<Match(1, 2, Other, <<Y, X>>, "none"),
                                       Match(0, 0, Other, <<X>>, "none")>>)
  /\ lp[1].new_text = <<"X", "a", "Y">>

(***************************************************************************)
(* C18: the first match in offset order is always applied.  When it is of  *)
(* a skipped rule, last_index is the end of its span as long as the loop   *)
(* is at matches that start inside that span; each of these is discarded,  *)
(* whatever it proposes.  A response in which every other match starts     *)
(* inside the span of such a first match returns the text as it was sent.  *)
(***************************************************************************)
InsideFirst(ms, j) ==
  /\ j >= 2
  /\ ms[1].rule \in SkippedRules
  /\ ms[1].offset <= ms[j].offset
  /\ ms[j].offset < ms[1].offset + ms[1].length

C18_Step ==
  \A p \in Running :
    (AtMatch(p) /\ lt[p].matches[1].absent = "none"
       /\ InsideFirst(lt[p].matches, lt[p].match_i))
      => /\ lt[p].last_index = lt[p].matches[1].offset + lt[p].matches[1].length
         /\ lt'[p].last_index = lt[p].last_index
         /\ lt'[p].new_text_parts = lt[p].new_text_parts
         /\ pc'[p] = "for"

C18_Output ==
  \A p \in Running :
    (pc[p] = "returned" /\ WellFormedReply(p))
      => LET ms == SortByOffset(svc[p].reply.matches)
         IN  (Len(ms) >= 2 /\ \A j \in 2..Len(ms) : InsideFirst(ms, j))
               => lp[p].new_text = svc[p].sent

C18_SkippedSpanShadowsLater == [][C18_Step]_vars /\ []C18_Output

\* "ab" of "abc" is the span of a skipped rule; the match at offset 1 that
\* proposes Y is discarded.
C18_Witness ==
  /\ pc[1] = "returned"
  /\ svc[1].reply = Reply("matches", <<Match(0, 2, Skipped, <<X>>, "none"),
                                       Match(1, 2, Other, <<Y, X>>, "none")>>)
  /\ lp[1].new_text = Abc

(***************************************************************************)
(* C19: an applied match that is not of a skipped rule, has no candidates  *)
(* and has length 0 appends the gap before its offset and the empty        *)
(* string; nothing is raised and the loop goes on to the next match.  A    *)
(* response made of such matches only returns the text as it was sent.     *)
(***************************************************************************)
EmptyNoCandidate(m) ==
  /\ m.absent = "none"
  /\ m.rule \notin SkippedRules
  /\ m.replacements = <<>>
  /\ m.length = 0

C19_Step ==
  \A p \in Running :
    (AtMatch(p) /\ CurrentMatch(p).offset >= lt[p].last_index
       /\ EmptyNoCandidate(CurrentMatch(p)))
      => /\ Emits(p, <<>>)
         /\ pc'[p] = "for"
         /\ lt'[p].match_i = lt[p].match_i + 1

C19_Output ==
  \A p \in Running :
    (pc[p] = "returned" /\ svc[p].reply.kind = "matches"
       /\ svc[p].reply.matches # <<>>
       /\ \A i \in DOMAIN svc[p].reply.matches :
            EmptyNoCandidate(svc[p].reply.matches[i]))
      => lp[p].new_text = svc[p].sent

C19_EmptyMatchChangesNothing == [][C19_Step]_vars /\ []C19_Output

\* After the empty match at offset 0 the match at offset 1 is applied.
C19_Witness ==
  /\ pc[1] = "returned"
  /\ svc[1].reply = Reply("matches", <<Match(0, 0, Other, <<>>, "none"),
                                       Match(1, 2, Other, <<X>>, "none")>>)
  /\ lp[1].new_text = <<"a", "X">>

(***************************************************************************)
(* C20: in the text that steps 1 and 2 produce no whitespace character     *)
(* stands right before one of the marks , . ? ! and no mark stands right   *)
(* after the same mark.                                                    *)
(***************************************************************************)
C20_NoSpaceBeforeMarkNoDoubleMark ==
  \A p \in Running :
    pc[p] = "loop"
      => LET t == lp[p].processed_text
         IN  \A i \in 1..(Len(t) - 1) :
               IsMark(t[i + 1]) => ~IsSpace(t[i]) /\ t[i] # t[i + 1]

\* ". ." has become ".": the whitespace went first, then the second period.
C20_Witness ==
  /\ pc[1] = "loop"
  /\ lp[1].text = <<".", " ", ".">>
  /\ lp[1].processed_text = <<".">>

(***************************************************************************)
(* What step 2b is to make of t when the capitals are those of caps: the   *)
(* capital that follows a comma and whitespace becomes its small letter,   *)
(* and every other character stays.                                        *)
(***************************************************************************)
CapitalAfterComma(t, j, caps) ==
  /\ t[j] \in caps
  /\ AfterCommaAndSpace(t, j)

LoweredAfterComma(t, caps) ==
  [j \in 1..Len(t) |->
     IF CapitalAfterComma(t, j, caps) THEN Lower(t[j]) ELSE t[j]]

\* Step 2b turns the text that steps 1 and 2a made into
\* LoweredAfterComma of it.
LowersCapitals(p, caps) ==
  pc[p] = "cleanup"
    => lp'[p].processed_text =
         LoweredAfterComma(DuplicateMarks(SpaceBeforeMark(lp[p].processed_text)),
                           caps)

\* The text that steps 1 and 2 made has no capital of caps after a comma
\* and whitespace.
NoCapitalAfterComma(p, caps) ==
  pc[p] = "loop"
    => \A j \in 1..Len(lp[p].processed_text) :
         ~CapitalAfterComma(lp[p].processed_text, j, caps)

(***************************************************************************)
(* C21: after the rules and the cleanup of step 2a, step 2b lowercases the *)
(* first letter of every capitalized word that follows a comma and         *)
(* whitespace, and changes nothing else; the text that steps 1 and 2 make  *)
(* has no comma followed by whitespace and a capital letter.               *)
(***************************************************************************)
C21_Step == \A p \in Running : LowersCapitals(p, UpperSet \cup OtherUpperSet)

C21_Output == \A p \in Running : NoCapitalAfterComma(p, UpperSet \cup OtherUpperSet)

C21_CapitalAfterCommaLowered == [][C21_Step]_vars /\ []C21_Output

\* The same for the capitals A-Z, which are those that [A-Z] matches: for
\* these the source does what C21 says.
CapitalAZ_Step == \A p \in Running : LowersCapitals(p, UpperSet)

CapitalAZ_Output == \A p \in Running : NoCapitalAfterComma(p, UpperSet)

CapitalAZAfterCommaLowered == [][CapitalAZ_Step]_vars /\ []CapitalAZ_Output

\* ", Bob" has become ", bob".
CapitalAZ_Witness ==
  /\ pc[1] = "loop"
  /\ lp[1].text = CommaBob
  /\ lp[1].processed_text = <<",", " ", "b", "o", "b">>

(***************************************************************************)
(* C22: steps 1 and 2, run on the text they produced, give that text       *)
(* again.  More closely: once a rule has run, none of the rules up to it   *)
(* finds anything to rewrite, neither right after it nor after the later   *)
(* rules; and in the text that steps 1 and 2 produce no rule and no pass   *)
(* of step 2 finds anything.                                               *)
(***************************************************************************)
C22_NormalizeIdempotent ==
  \A p \in Running :
    LET t == lp[p].processed_text
    IN  /\ pc[p] \in {"punctuation", "cleanup"}
          => \A k \in 1..(lp[p].rule_i - 1) : PunctuationRule(t, k) = t
        /\ pc[p] = "loop"
          => /\ Normalize(t) = t
             /\ \A k \in DOMAIN PUNCTUATION : PunctuationRule(t, k) = t
             /\ SpaceBeforeMark(t) = t
             /\ DuplicateMarks(t) = t
             /\ CommaLower(t) = t

\* "comma ." became ",.": the rule for "comma" wrote ", ." and step 2a took
\* the space out; a second run changes nothing.
C22_Witness ==
  /\ pc[1] = "loop"
  /\ lp[1].text = <<"c", "o", "m", "m", "a", " ", ".">>
  /\ lp[1].processed_text = <<",", ".">>
  /\ Normalize(lp[1].processed_text) = lp[1].processed_text

\* The status the window was told last; False before the first.
LastStatus ==
  IF window.statuses = <<>> THEN FALSE
  ELSE window.statuses[Len(window.statuses)]

\* A step of one of the two toggle_recording methods.
ToggleStep ==
  \/ window'.timers # window.timers
  \/ window'.scripts > window.scripts

C23_Step == ToggleStep => window'._is_recording = window._is_recording

C23_State ==
  ~window.quit
    => /\ MainWindow_is_recording = LastStatus
       /\ DictationService_is_recording = LastStatus
       /\ window.recording_overlay = "shown" <=> MainWindow_is_recording

(***************************************************************************)
(* C23: until quit, under every interleaving of DBus toggle_recording      *)
(* calls and mic statuses, is_recording of the window and of the DBus      *)
(* service is the status told last (False before the first), the overlay   *)
(* is shown exactly when is_recording is True, and no toggle_recording     *)
(* step changes is_recording.                                              *)
(***************************************************************************)
C23_RecordingFollowsMicStatus == [][C23_Step]_vars /\ []C23_State

\* Told True, then toggled twice over DBus with one toggle already handed
\* to the page, and told nothing since: still recording, overlay shown.
C23_Witness ==
  /\ window.statuses = <<TRUE>>
  /\ window.timers = 1
  /\ window.scripts = 1
  /\ DictationService_is_recording
  /\ window.recording_overlay = "shown"
  /\ ~window.quit

=============================================================================
